---- MODULE Spec2Model ----
(***************************************************************************)
(* AI video generation pipeline (video_pipeline.py), its Flask front end   *)
(* (app.py) and the batch driver (batch_generate.py).                      *)
(*                                                                         *)
(* Time is counted in whole seconds.  A clip is a record                   *)
(*   [duration |-> declared duration, frames |-> what it shows]            *)
(* where frames is a sequence of segments [scene, from, len]: len seconds  *)
(* of the visual file of scene `scene`, starting at its second `from`.     *)
(* Python lists are 0-based; the sequences here are 1-based, so scene i    *)
(* of the model is script_data["scenes"][i-1] and its file visual_{i-1}.   *)
(***************************************************************************)
EXTENDS Integers, Sequences, FiniteSets, TLC

\* ---------------------------------------------------------------- bounds
MaxScenes == 2      \* scenes in a script returned by the text service
MaxDur == 1         \* largest scene duration the text service declares
MaxClip == 1        \* largest intrinsic duration of a downloaded clip
MaxAudio == 1       \* largest duration of a synthesized speech track
MaxRequests == 3    \* /generate requests that arrive
MaxFaults == 1      \* failures of the media library (decode, resize, encode, probe) in one run
MaxTopics == 3      \* topics in the list given to the batch driver

\* ------------------------------------------------------ program constants
FallbackSceneDuration == 10
PlaceholderDuration == 8
SilentDuration == 45
MinAudioSize == 1000

Topics == {"Photosynthesis", "Volcanoes"}

Min(a, b) == IF a < b THEN a ELSE b

\* ------------------------------------------------------------------ text
\* A text is a sequence of string fragments; f-strings concatenate them.
Txt(s) == <<s>>

\* ---------------------------------------------------------------- script
SceneKeys == {"duration", "description", "text"}
ScriptKeys == {"title", "script", "scenes"}

\* A dict: `keys` are the keys present; a lookup of an absent key raises.
Scene(d, desc, text) ==
    [keys |-> SceneKeys, duration |-> d, description |-> desc, text |-> text]

\* Mutant: a fallback script of three scenes.
FallbackScript_ThreeScenes(t) ==
    [keys   |-> ScriptKeys,
     title  |-> <<"Everything About ", t>>,
     script |-> <<"Welcome to our video about ", t, ".">>,
     scenes |-> << Scene(FallbackSceneDuration, <<"intro to ", t>>,
                         <<"Welcome to our video about ", t, ".">>),
                   Scene(FallbackSceneDuration, <<t, " concepts">>,
                         <<"Let's explore the key concepts together.">>),
                   Scene(FallbackSceneDuration, <<t, " conclusion">>,
                         <<"Thank you for watching this video about ", t, ".">>) >>]

_generate_fallback_script(t) ==
    [keys   |-> ScriptKeys,
     title  |-> <<"Everything About ", t>>,
     script |-> <<"Welcome to our video about ", t, ". ... Thank you for watching this video about ", t, ".">>,
     scenes |-> << Scene(FallbackSceneDuration, <<"intro to ", t>>,
                         <<"Welcome to our video about ", t, ".">>),
                   Scene(FallbackSceneDuration, <<t, " history">>,
                         <<"This is a fascinating subject ... ", t, " has a rich history.">>),
                   Scene(FallbackSceneDuration, <<t, " concepts">>,
                         <<"Let's explore the key concepts together.">>),
                   Scene(FallbackSceneDuration, <<t, " applications">>,
                         <<"Understanding ", t, " can open up new possibilities.">>),
                   Scene(FallbackSceneDuration, <<t, " conclusion">>,
                         <<"Thank you for watching this video about ", t, ".">>) >>]

\* What the text-generation service may answer.
ServiceScene(d) == Scene(d, Txt("service description"), Txt("service text"))

SceneLists ==
    UNION { [1..n -> {ServiceScene(d) : d \in 1..MaxDur}] : n \in 1..MaxScenes }

ServiceScript(ss) ==
    [keys |-> ScriptKeys, title |-> Txt("service title"),
     script |-> Txt("service narration"), scenes |-> ss]

WellFormedDocs == { ServiceScript(ss) : ss \in SceneLists }

BaseDoc == ServiceScript(<<ServiceScene(1)>>)

\* Documents that are valid JSON but not of the Script shape.
MalformedDocs ==
    { [BaseDoc EXCEPT !.keys = ScriptKeys \ {"title"}],
      [BaseDoc EXCEPT !.keys = ScriptKeys \ {"scenes"}],
      [BaseDoc EXCEPT !.keys = ScriptKeys \ {"script"}],
      [BaseDoc EXCEPT !.scenes = << >>],
      [BaseDoc EXCEPT !.scenes = <<[ServiceScene(1) EXCEPT !.keys = SceneKeys \ {"duration"}]>>],
      [BaseDoc EXCEPT !.scenes = <<[ServiceScene(1) EXCEPT !.keys = SceneKeys \ {"description"}]>>],
      [BaseDoc EXCEPT !.scenes = <<[ServiceScene(1) EXCEPT !.keys = SceneKeys \ {"text"}]>>] }

\* A response of the service: a network/API error, text that is not JSON,
\* or a JSON document.
GroqResponses ==
    { [kind |-> "error", doc |-> BaseDoc], [kind |-> "not_json", doc |-> BaseDoc] }
    \cup { [kind |-> "json", doc |-> d] : d \in WellFormedDocs \cup MalformedDocs }

\* The Script shape of the data model: title, narration, non-empty scenes,
\* each with a positive duration, a description and a text.
WellFormedScript(s) ==
    /\ s.keys = ScriptKeys
    /\ Len(s.scenes) >= 1
    /\ \A i \in 1..Len(s.scenes) :
          /\ s.scenes[i].keys = SceneKeys
          /\ s.scenes[i].duration > 0

\* The statements of the try block of step1_generate_script raise on r:
\* the API call, json.loads, script_data['title'], script_data['scenes'],
\* scene['duration'] in the sum.
Step1TryRaises(r) ==
    \/ r.kind # "json"
    \/ "title" \notin r.doc.keys
    \/ "scenes" \notin r.doc.keys
    \/ \E i \in 1..Len(r.doc.scenes) : "duration" \notin r.doc.scenes[i].keys

step1_generate_script(t, groq_key, r) ==
    IF ~groq_key THEN _generate_fallback_script(t)
    ELSE IF Step1TryRaises(r) THEN _generate_fallback_script(t)
    ELSE r.doc


\* ------------------------------------------------------------ voiceover
AudioSizes == {MinAudioSize - 1, MinAudioSize}

NoAudioFile == [exists |-> FALSE, size |-> 0, duration |-> 0, provider |-> "none"]

AudioFile(p, size, dur) ==
    [exists |-> TRUE, size |-> size, duration |-> dur, provider |-> p]

\* _generate_elevenlabs_audio: returns the path on HTTP 200, raises otherwise.
ElevenLabsReturns(status) == status = 200

\* _generate_edge_tts_audio, the checks after communicate.save():
\* the file must exist and hold at least MinAudioSize bytes.
EdgeAccepts(saved, size) == saved /\ ~(size < MinAudioSize)

\* --------------------------------------------------------------- visuals
NoFile == [written |-> FALSE, duration |-> 0, kind |-> "none"]

VideoFiles == [quality : {"hd", "sd", "uhd"}, width : {640, 1280}]

PexelsResponses ==
    { [status |-> st, video_files |-> vf] :
        st \in {200, 500},
        vf \in {<< >>} \cup { <<a>> : a \in VideoFiles }
                      \cup { <<a, b>> : a \in {[quality |-> "uhd", width |-> 1280]},
                                        b \in VideoFiles } }

RECURSIVE FirstQualifying(_, _)
FirstQualifying(vf, k) ==
    IF k > Len(vf) THEN 0
    ELSE IF vf[k].quality \in {"hd", "sd"} /\ vf[k].width >= 1280 THEN k
    ELSE FirstQualifying(vf, k + 1)

\* _search_pexels_video: index of the chosen video file, 0 for None.
\* An empty "videos" list is a response without video files.
_search_pexels_video(resp) ==
    IF resp.status = 200 THEN FirstQualifying(resp.video_files, 1) ELSE 0


\* ----------------------------------------------------------------- clips
NoClip == [duration |-> 0, frames |-> << >>]

\* VideoFileClip(visual_path) of the file of scene i, c seconds long.
VideoFileClip(i, c) ==
    [duration |-> c, frames |-> <<[scene |-> i, from |-> 0, len |-> c]>>]

\* Seconds of content in a sequence of segments.
RECURSIVE FramesLen(_)
FramesLen(segs) ==
    IF segs = << >> THEN 0 ELSE Head(segs).len + FramesLen(Tail(segs))

\* The first n seconds of a sequence of segments (all of it if shorter).
RECURSIVE TakeFrames(_, _)
TakeFrames(segs, n) ==
    IF n <= 0 \/ segs = << >> THEN << >>
    ELSE IF Head(segs).len <= n
         THEN <<Head(segs)>> \o TakeFrames(Tail(segs), n - Head(segs).len)
    ELSE <<[Head(segs) EXCEPT !.len = n]>>

\* What a sequence of segments shows during second t (counted from 0):
\* <<scene, second of that scene's file>>.
RECURSIVE FrameAt(_, _)
FrameAt(segs, t) ==
    IF t < Head(segs).len THEN <<Head(segs).scene, Head(segs).from + t>>
    ELSE FrameAt(Tail(segs), t - Head(segs).len)

\* clip.subclip(0, t_end): the duration becomes t_end; the frames are those
\* of the source up to t_end (a source shorter than t_end has no more).
subclip(clip, t_end) ==
    [duration |-> t_end, frames |-> TakeFrames(clip.frames, t_end)]

\* Mutant: the clips are joined last to first.
RECURSIVE Concatenate_Reversed(_)
Concatenate_Reversed(cs) ==
    IF cs = << >> THEN NoClip
    ELSE LET rest == Concatenate_Reversed(Tail(cs))
         IN  [duration |-> Head(cs).duration + rest.duration,
              frames   |-> rest.frames \o Head(cs).frames]

\* concatenate_videoclips(clips): one clip after the other.
RECURSIVE concatenate_videoclips(_)
concatenate_videoclips(cs) ==
    IF cs = << >> THEN NoClip
    ELSE LET rest == concatenate_videoclips(Tail(cs))
         IN  [duration |-> Head(cs).duration + rest.duration,
              frames   |-> Head(cs).frames \o rest.frames]

\* [clip] * n
Repeat(clip, n) == [k \in 1..n |-> clip]

\* Mutant: the number of copies is the quotient rounded up.
LoopsNeeded_Ceil(target, duration) == (target + duration - 1) \div duration

\* int(target / duration) + 1
LoopsNeeded(target, duration) == (target \div duration) + 1

\* Mutant: a clip longer than its scene is not trimmed.
NormalizeClip_NoTrim(clip, scene_duration) ==
    IF clip.duration < scene_duration
    THEN subclip(concatenate_videoclips(
                     Repeat(clip, LoopsNeeded(scene_duration, clip.duration))),
                 scene_duration)
    ELSE clip

\* Trim or loop clip to match scene duration (then resize, which changes
\* neither duration nor timing).
NormalizeClip(clip, scene_duration) ==
    IF clip.duration > scene_duration THEN subclip(clip, scene_duration)
    ELSE IF clip.duration < scene_duration
         THEN subclip(concatenate_videoclips(
                          Repeat(clip, LoopsNeeded(scene_duration, clip.duration))),
                      scene_duration)
    ELSE clip

\* Mutant: the looped video is not trimmed to the audio.
MatchAudio_NoTrimAfterLoop(final, audio_duration) ==
    IF final.duration < audio_duration
    THEN concatenate_videoclips(
             Repeat(final, LoopsNeeded(audio_duration, final.duration)))
    ELSE IF final.duration > audio_duration THEN subclip(final, audio_duration)
    ELSE final

\* Mutant: a video shorter than the audio is extended by holding its last
\* second instead of starting over.
MatchAudio_HoldLastSecond(final, audio_duration) ==
    IF final.duration < audio_duration
    THEN LET last == final.frames[Len(final.frames)]
             hold == [scene |-> last.scene, from |-> last.from + last.len - 1, len |-> 1]
         IN  [duration |-> audio_duration,
              frames |-> final.frames \o [k \in 1..(audio_duration - final.duration) |-> hold]]
    ELSE IF final.duration > audio_duration THEN subclip(final, audio_duration)
    ELSE final

\* Match video duration to audio.
MatchAudio(final, audio_duration) ==
    IF final.duration < audio_duration
    THEN subclip(concatenate_videoclips(
                     Repeat(final, LoopsNeeded(audio_duration, final.duration))),
                 audio_duration)
    ELSE IF final.duration > audio_duration THEN subclip(final, audio_duration)
    ELSE final

\* ------------------------------------------------------------- variables
VARIABLES
    \* one run of generate_video
    keys,           \* which of the three API keys are set
    ffmpeg_installed, \* the ffmpeg command exists on this machine
    topic,
    pc,             \* position of the run
    script_data,    \* result of step 1
    script_json,    \* content of output/script.json
    audio_file,     \* output/voiceover.mp3
    tried,          \* speech providers invoked, in order
    visual_paths,   \* result of step 3: scene index of each path
    files,          \* output/visual_{i}.mp4, by scene
    calls,          \* steps invoked, in order
    result,         \* what generate_video returned
    exc,            \* the exception that ended the run, if any
    metadata,       \* content of output/youtube_metadata.json
    faults,         \* local tool failures so far in this run
    \* locals of step4_combine_into_video
    audio,          \* the AudioFileClip
    i4,             \* loop index over visual_paths
    clips,          \* normalized clips appended so far
    loaded,         \* scene index of each appended clip
    skipped,        \* scenes whose visual raised and was passed over
    raised4,        \* the exception caught by the outer except of step 4
    final_video,
    attached,       \* final_video.audio is set
    encoded,        \* the file written by write_videofile
    verified,       \* outcome of the ffprobe audio check
    opened, closed, \* media handles opened / closed
    step4_result,
    \* app.py
    generation_status,
    hpc,            \* position of each /generate request handler
    jpc,            \* position of each background job thread
    \* batch_generate.py
    batch_topics,   \* the list of topics given to batch_generate_videos
    results,        \* the result records appended so far
    summary         \* the counts printed after the loop

runVars == <<keys, ffmpeg_installed, topic, pc, script_data, script_json, audio_file, tried,
             visual_paths, files, calls, result, exc, metadata, faults>>
asmVars == <<audio, i4, clips, loaded, skipped, raised4, final_video, attached, encoded, verified,
             opened, closed, step4_result>>
appVars == <<generation_status, hpc, jpc>>
batchVars == <<batch_topics, results, summary>>
vars == <<runVars, asmVars, appVars, batchVars>>

NoScript == [keys |-> {}, title |-> << >>, script |-> << >>, scenes |-> << >>]
NoMetadata == [written |-> FALSE]
NoAudio == [open |-> FALSE, loaded |-> FALSE, duration |-> 0]
NoEncoded == [written |-> FALSE, video |-> NoClip, audio_duration |-> 0, has_audio |-> FALSE]

H_audio == <<"audio", 0>>
H_final == <<"final_video", 0>>
H_clip(i) == <<"clip", i>>

IdleStatus ==
    [status |-> "idle", message |-> "Ready to generate videos", progress |-> 0,
     video_path |-> "None", error |-> "None"]

Requests == 1..MaxRequests

\* The topic of the run.  The pipeline never inspects the topic: it is only
\* interpolated into the prompt and into the fallback text, so a run on
\* another topic is this run with the topic renamed.
RunTopic == "Photosynthesis"

InitRun ==
    /\ keys \in [groq : BOOLEAN, eleven : BOOLEAN, pexels : BOOLEAN]
    /\ ffmpeg_installed \in BOOLEAN
    /\ topic = RunTopic
    /\ pc = "step1"
    /\ script_data = NoScript
    /\ script_json = NoScript
    /\ audio_file = NoAudioFile
    /\ tried = << >>
    /\ visual_paths = << >>
    /\ files = << >>
    /\ calls = << >>
    /\ result = "pending"
    /\ exc = "none"
    /\ metadata = NoMetadata
    /\ faults = 0

InitAsm ==
    /\ audio = NoAudio
    /\ i4 = 1
    /\ clips = << >>
    /\ loaded = << >>
    /\ skipped = << >>
    /\ raised4 = "none"
    /\ final_video = NoClip
    /\ attached = FALSE
    /\ encoded = NoEncoded
    /\ verified = "not_run"
    /\ opened = {}
    /\ closed = {}
    /\ step4_result = "pending"

InitApp ==
    /\ generation_status = IdleStatus
    /\ hpc = [r \in Requests |-> "new"]
    /\ jpc = [r \in Requests |-> "none"]

NoSummary == [printed |-> FALSE, successful |-> 0, failed |-> 0]

\* No batch is run.
InitNoBatch ==
    /\ batch_topics = << >>
    /\ results = << >>
    /\ summary = NoSummary

Init == InitRun /\ InitAsm /\ InitApp /\ InitNoBatch


\* ------------------------------------------------- generate_video: steps
\* Outcomes of a call into the media library: it may fail while failures
\* remain in the bound.
ToolOutcomes == IF faults < MaxFaults THEN BOOLEAN ELSE {TRUE}

\* Mutant: after an exception the run starts over at step 1.
Fatal_Retries(e) ==
    /\ pc' = "step1"
    /\ result' = result
    /\ exc' = e

\* An exception that reaches the except clause of generate_video: the run
\* returns None.
Fatal(e) ==
    /\ pc' = "done"
    /\ result' = "None"
    /\ exc' = e

\* Step 1 and the dump of the script to script.json.
Step1 ==
    /\ pc = "step1"
    /\ \E r \in IF keys.groq THEN GroqResponses ELSE {[kind |-> "error", doc |-> BaseDoc]} :
          /\ script_data' = step1_generate_script(topic, keys.groq, r)
          /\ script_json' = script_data'
    /\ calls' = Append(calls, "step1")
    /\ pc' = "step2"
    /\ UNCHANGED <<keys, ffmpeg_installed, topic, audio_file, tried, visual_paths, files, result, exc,
                   metadata, faults, asmVars, appVars, batchVars>>

\* Mutant: the paid service is tried whether or not its key is set.
Step2Begin_AlwaysElevenLabs ==
    /\ pc = "step2"
    /\ calls' = Append(calls, "step2")
    /\ IF "script" \notin script_data.keys
       THEN Fatal("KeyError script")
       ELSE /\ pc' = "elevenlabs"
            /\ UNCHANGED <<result, exc>>
    /\ UNCHANGED <<keys, ffmpeg_installed, topic, script_data, script_json, audio_file, tried,
                   visual_paths, files, metadata, faults, asmVars, appVars, batchVars>>

\* step2_generate_voiceover up to the choice of the first provider;
\* script_data["script"] raises KeyError when the key is absent.
Step2Begin ==
    /\ pc = "step2"
    /\ calls' = Append(calls, "step2")
    /\ IF "script" \notin script_data.keys
       THEN Fatal("KeyError script")
       ELSE /\ pc' = IF keys.eleven THEN "elevenlabs" ELSE "edge_tts"
            /\ UNCHANGED <<result, exc>>
    /\ UNCHANGED <<keys, ffmpeg_installed, topic, script_data, script_json, audio_file, tried,
                   visual_paths, files, metadata, faults, asmVars, appVars, batchVars>>

\* _generate_elevenlabs_audio inside the try of step 2: on HTTP 200 the
\* body is written and the path returned; any other status, or a network
\* error (status 0), raises and step 2 falls back to Edge TTS.
ElevenLabs ==
    /\ pc = "elevenlabs"
    /\ tried' = Append(tried, "elevenlabs")
    /\ \E status \in {0, 200, 401}, size \in AudioSizes, dur \in 1..MaxAudio :
          IF ElevenLabsReturns(status)
          THEN /\ audio_file' = AudioFile("elevenlabs", size, dur)
               /\ pc' = "step3"
          ELSE /\ audio_file' = audio_file
               /\ pc' = "edge_tts"
    /\ UNCHANGED <<keys, ffmpeg_installed, topic, script_data, script_json, visual_paths, files,
                   calls, result, exc, metadata, faults, asmVars, appVars, batchVars>>

\* _generate_edge_tts_audio: save() raises, or leaves no file, or leaves a
\* file; a file under MinAudioSize bytes raises; every exception leads to
\* _create_silent_audio.
EdgeTTS ==
    /\ pc = "edge_tts"
    /\ tried' = Append(tried, "edge_tts")
    /\ \E saved \in BOOLEAN, size \in AudioSizes, dur \in 1..MaxAudio :
          IF EdgeAccepts(saved, size)
          THEN /\ audio_file' = AudioFile("edge_tts", size, dur)
               /\ pc' = "step3"
          ELSE /\ audio_file' = IF saved THEN AudioFile("edge_tts", size, dur)
                                ELSE audio_file
               /\ pc' = "silent"
    /\ UNCHANGED <<keys, ffmpeg_installed, topic, script_data, script_json, visual_paths, files,
                   calls, result, exc, metadata, faults, asmVars, appVars, batchVars>>

\* _create_silent_audio(duration=45): ffmpeg exits 0 and the path is
\* returned, or the exception is re-raised and leaves step 2.
SilentAudio ==
    /\ pc = "silent"
    /\ tried' = Append(tried, "silent")
    /\ IF ffmpeg_installed
       THEN /\ audio_file' = AudioFile("silent", MinAudioSize, SilentDuration)
            /\ pc' = "step3"
            /\ UNCHANGED <<result, exc>>
       ELSE /\ audio_file' = audio_file
            /\ Fatal("Failed to create silent audio")
    /\ UNCHANGED <<keys, ffmpeg_installed, topic, script_data, script_json,
                   visual_paths, files, calls, metadata, faults, asmVars, appVars, batchVars>>

Step3Begin ==
    /\ pc = "step3"
    /\ calls' = Append(calls, "step3")
    /\ pc' = "step3_loop"
    /\ UNCHANGED <<keys, ffmpeg_installed, topic, script_data, script_json, audio_file, tried,
                   visual_paths, files, result, exc, metadata, faults, asmVars, appVars, batchVars>>

\* Mutant: no plain render after a failed captioned render.
ColoredBackground_NoPlainRender(caption_ok, plain_ok) ==
    IF caption_ok
    THEN [written |-> TRUE, duration |-> PlaceholderDuration, kind |-> "placeholder"]
    ELSE NoFile

\* _create_colored_background: the captioned render, else the plain render,
\* else (ffmpeg cannot be run) the exception is swallowed and no file is
\* written.
_create_colored_background(caption_ok, plain_ok) ==
    IF caption_ok \/ plain_ok
    THEN [written |-> TRUE, duration |-> PlaceholderDuration, kind |-> "placeholder"]
    ELSE NoFile

\* Mutant: a failed placeholder render leaves step 3 as an exception.
Step3Fallback_Raises(scene, i) ==
    IF "text" \notin scene.keys
    THEN /\ Fatal("KeyError text")
         /\ UNCHANGED <<visual_paths, files>>
    ELSE \E drawtext_ok \in BOOLEAN :
            IF ffmpeg_installed
            THEN /\ files' = Append(files, [written |-> TRUE,
                                            duration |-> PlaceholderDuration,
                                            kind |-> "placeholder"])
                 /\ visual_paths' = Append(visual_paths, i)
                 /\ UNCHANGED <<pc, result, exc>>
            ELSE /\ Fatal("placeholder render failed")
                 /\ UNCHANGED <<visual_paths, files>>

\* The fallback of one scene (outside any try): scene["text"], the
\* placeholder render and the append.
Step3Fallback(scene, i) ==
    IF "text" \notin scene.keys
    THEN /\ Fatal("KeyError text")
         /\ UNCHANGED <<visual_paths, files>>
    ELSE /\ \E drawtext_ok \in BOOLEAN :
              files' = Append(files, _create_colored_background(
                                         ffmpeg_installed /\ drawtext_ok, ffmpeg_installed))
         /\ visual_paths' = Append(visual_paths, i)
         /\ UNCHANGED <<pc, result, exc>>

\* One iteration of the loop of step3_fetch_visuals.
Step3Scene ==
    /\ pc = "step3_loop"
    /\ Len(visual_paths) < Len(script_data.scenes)
    /\ LET i == Len(visual_paths) + 1
           scene == script_data.scenes[i]
       IN  IF "description" \notin scene.keys
           THEN /\ Fatal("KeyError description")
                /\ UNCHANGED <<visual_paths, files>>
           ELSE IF keys.pexels
           THEN \/ \E resp \in PexelsResponses, c \in 1..MaxClip :
                      \* the search returns, the download succeeds
                      /\ _search_pexels_video(resp) # 0
                      /\ files' = Append(files, [written |-> TRUE, duration |-> c,
                                                 kind |-> "download"])
                      /\ visual_paths' = Append(visual_paths, i)
                      /\ UNCHANGED <<pc, result, exc>>
                \/ \* the search raises or finds nothing, or the download raises
                   Step3Fallback(scene, i)
           ELSE Step3Fallback(scene, i)
    /\ UNCHANGED <<keys, ffmpeg_installed, topic, script_data, script_json,
                   audio_file, tried, calls, metadata, faults, asmVars, appVars, batchVars>>

Step3Return ==
    /\ pc = "step3_loop"
    /\ Len(visual_paths) = Len(script_data.scenes)
    /\ pc' = "step4"
    /\ UNCHANGED <<keys, ffmpeg_installed, topic, script_data, script_json, audio_file, tried,
                   visual_paths, files, calls, result, exc, metadata, faults, asmVars, appVars, batchVars>>


\* ------------------------------------------- step4_combine_into_video
\* AudioFileClip(audio_path): the first statement of the outer try.
Step4LoadAudio ==
    /\ pc = "step4"
    /\ calls' = Append(calls, "step4")
    /\ \E decodable \in ToolOutcomes :
          IF audio_file.exists /\ decodable
          THEN /\ audio' = [open |-> TRUE, loaded |-> TRUE, duration |-> audio_file.duration]
               /\ opened' = opened \cup {H_audio}
               /\ pc' = "s4_visuals"
               /\ UNCHANGED <<faults, raised4>>
          ELSE /\ UNCHANGED <<audio, opened>>
               /\ faults' = faults + 1
               /\ raised4' = "AudioFileClip"
               /\ pc' = "s4_except"
    /\ UNCHANGED <<keys, ffmpeg_installed, topic, script_data, script_json, audio_file, tried,
                   visual_paths, files, result, exc, metadata,
                   i4, clips, loaded, skipped, final_video, attached, encoded, verified,
                   closed, step4_result, appVars, batchVars>>

\* The clip appended for scene i from a file of intrinsic duration c.
SceneClip(i, c, scene_duration) == NormalizeClip(VideoFileClip(i, c), scene_duration)

\* Mutant: a scene's error aborts the assembly.
SceneErrorAborts == "s4_except"

\* except Exception ... continue: where the loop goes after a scene's
\* visual raised.
SceneErrorTarget == "s4_visuals"

\* One iteration of the loading loop: VideoFileClip raises on a file that
\* was not written; trimming, looping or resizing may raise after the file
\* was opened; either way the scene is skipped.
Step4LoadVisual ==
    /\ pc = "s4_visuals"
    /\ i4 <= Len(visual_paths)
    /\ LET i == visual_paths[i4]
           scene_duration == script_data.scenes[i].duration
       IN  IF ~files[i].written
           THEN /\ skipped' = Append(skipped, i)
                /\ pc' = SceneErrorTarget
                /\ UNCHANGED <<clips, loaded, opened, faults>>
           ELSE /\ opened' = opened \cup {H_clip(i)}
                /\ \E normalize_ok \in ToolOutcomes :
                      IF normalize_ok
                      THEN /\ clips' = Append(clips, SceneClip(i, files[i].duration,
                                                               scene_duration))
                           /\ loaded' = Append(loaded, i)
                           /\ UNCHANGED <<skipped, faults, pc>>
                      ELSE /\ skipped' = Append(skipped, i)
                           /\ faults' = faults + 1
                           /\ pc' = SceneErrorTarget
                           /\ UNCHANGED <<clips, loaded>>
    /\ i4' = i4 + 1
    /\ UNCHANGED <<keys, ffmpeg_installed, topic, script_data, script_json,
                   audio_file, tried, visual_paths, files, calls, result, exc,
                   metadata, audio, raised4, final_video, attached, encoded,
                   verified, closed, step4_result, appVars, batchVars>>

\* Mutant: the return without clips leaves the audio open.
Step4NoClips_AudioLeftOpen ==
    /\ pc = "s4_visuals"
    /\ i4 > Len(visual_paths)
    /\ clips = << >>
    /\ step4_result' = "None"
    /\ pc' = "finish"
    /\ UNCHANGED <<keys, ffmpeg_installed, topic, script_data, script_json, audio_file,
                   tried, visual_paths, files, calls, result, exc, metadata, faults,
                   audio, closed, i4, clips, loaded, skipped, raised4, final_video,
                   attached, encoded, verified, opened, appVars, batchVars>>

\* if not clips: audio.close(); return None
Step4NoClips ==
    /\ pc = "s4_visuals"
    /\ i4 > Len(visual_paths)
    /\ clips = << >>
    /\ audio' = [audio EXCEPT !.open = FALSE]
    /\ closed' = closed \cup {H_audio}
    /\ step4_result' = "None"
    /\ pc' = "finish"
    /\ UNCHANGED <<keys, ffmpeg_installed, topic, script_data, script_json, audio_file, tried,
                   visual_paths, files, calls, result, exc, metadata, faults,
                   i4, clips, loaded, skipped, raised4, final_video, attached, encoded, verified,
                   opened, appVars, batchVars>>

\* Mutant: the audio is attached to the concatenation, before the durations
\* are reconciled.
Step4Concatenate_AttachesEarly ==
    /\ pc = "s4_visuals"
    /\ i4 > Len(visual_paths)
    /\ clips # << >>
    /\ final_video' = concatenate_videoclips(clips)
    /\ attached' = TRUE
    /\ opened' = opened \cup {H_final}
    /\ pc' = "s4_match"
    /\ UNCHANGED <<keys, ffmpeg_installed, topic, script_data, script_json, audio_file, tried,
                   visual_paths, files, calls, result, exc, metadata, faults,
                   audio, i4, clips, loaded, skipped, raised4, encoded, verified,
                   closed, step4_result, appVars, batchVars>>

\* final_video = concatenate_videoclips(clips, method="compose")
Step4Concatenate ==
    /\ pc = "s4_visuals"
    /\ i4 > Len(visual_paths)
    /\ clips # << >>
    /\ final_video' = concatenate_videoclips(clips)
    /\ opened' = opened \cup {H_final}
    /\ pc' = "s4_match"
    /\ UNCHANGED <<keys, ffmpeg_installed, topic, script_data, script_json, audio_file, tried,
                   visual_paths, files, calls, result, exc, metadata, faults,
                   audio, i4, clips, loaded, skipped, raised4, attached, encoded, verified,
                   closed, step4_result, appVars, batchVars>>

Step4MatchAudio ==
    /\ pc = "s4_match"
    /\ final_video' = MatchAudio(final_video, audio.duration)
    /\ pc' = "s4_attach"
    /\ UNCHANGED <<keys, ffmpeg_installed, topic, script_data, script_json, audio_file, tried,
                   visual_paths, files, calls, result, exc, metadata, faults,
                   audio, i4, clips, loaded, skipped, raised4, attached, encoded, verified,
                   opened, closed, step4_result, appVars, batchVars>>

\* final_video = final_video.set_audio(audio)
Step4SetAudio ==
    /\ pc = "s4_attach"
    /\ attached' = TRUE
    /\ pc' = "s4_encode"
    /\ UNCHANGED <<keys, ffmpeg_installed, topic, script_data, script_json, audio_file, tried,
                   visual_paths, files, calls, result, exc, metadata, faults,
                   audio, i4, clips, loaded, skipped, raised4, final_video, encoded, verified,
                   opened, closed, step4_result, appVars, batchVars>>

\* What write_videofile writes for a clip and its attached audio.
EncodedFile(video, has_audio, audio_duration) ==
    [written |-> TRUE, video |-> video,
     audio_duration |-> IF has_audio THEN audio_duration ELSE 0,
     has_audio |-> has_audio]

\* final_video.write_videofile(...): writes the file or raises.
Step4Encode ==
    /\ pc = "s4_encode"
    /\ \E encode_ok \in ToolOutcomes :
          IF encode_ok
          THEN /\ encoded' = EncodedFile(final_video, attached, audio.duration)
               /\ pc' = "s4_verify"
               /\ UNCHANGED <<faults, raised4>>
          ELSE /\ UNCHANGED encoded
               /\ faults' = faults + 1
               /\ raised4' = "write_videofile"
               /\ pc' = "s4_except"
    /\ UNCHANGED <<keys, ffmpeg_installed, topic, script_data, script_json, audio_file, tried,
                   visual_paths, files, calls, result, exc, metadata,
                   audio, i4, clips, loaded, skipped, final_video, attached, verified,
                   opened, closed, step4_result, appVars, batchVars>>

\* The handles of the clips in the list `clips`.
ClipHandles == { H_clip(loaded[k]) : k \in 1..Len(loaded) }

\* What the ffprobe check of the output can report: the audio codec, no
\* audio stream, or (a failure of the local tool) nothing at all.
ProbeOutcomes(has_audio) ==
    (IF has_audio THEN {"audio_found"} ELSE {"no_audio"})
    \cup (IF faults < MaxFaults THEN {"no_audio", "probe_failed"} ELSE {})

\* After the encode: the ffprobe check of the output (it prints a
\* confirmation or a warning, an exception of the probe is passed over, and
\* nothing depends on it), the clean-up, and return str(output_path).  The
\* clean-up is inside the outer try: a close() that raises leads to the
\* except clause.
Step4Return ==
    /\ pc = "s4_verify"
    /\ \E probe \in ProbeOutcomes(encoded.has_audio) :
          LET f == IF probe = "audio_found" \/ ~encoded.has_audio
                   THEN faults ELSE faults + 1
          IN  /\ verified' = probe
              /\ \E close_ok \in (IF f < MaxFaults THEN BOOLEAN ELSE {TRUE}) :
                    IF close_ok
                    THEN /\ audio' = [audio EXCEPT !.open = FALSE]
                         /\ closed' = closed \cup {H_audio, H_final} \cup ClipHandles
                         /\ step4_result' = "path"
                         /\ faults' = f
                         /\ pc' = "finish"
                         /\ UNCHANGED raised4
                    ELSE /\ faults' = f + 1
                         /\ raised4' = "close"
                         /\ pc' = "s4_except"
                         /\ UNCHANGED <<audio, closed, step4_result>>
    /\ UNCHANGED <<keys, ffmpeg_installed, topic, script_data, script_json, audio_file, tried,
                   visual_paths, files, calls, result, exc, metadata,
                   i4, clips, loaded, skipped, final_video, attached, encoded,
                   opened, appVars, batchVars>>

\* Mutant: the except clause of step 4 lets the exception through to
\* generate_video.
Step4Except_Reraises ==
    /\ pc = "s4_except"
    /\ Fatal(raised4)
    /\ UNCHANGED <<keys, ffmpeg_installed, topic, script_data, script_json, audio_file, tried,
                   visual_paths, files, calls, metadata, faults, asmVars, appVars, batchVars>>

\* except Exception: print, then the best-effort clean-up of the locals that
\* exist (an exception of a close() is passed over and ends the clean-up),
\* return None.
Step4Except ==
    /\ pc = "s4_except"
    /\ \E close_ok \in ToolOutcomes :
          IF close_ok
          THEN /\ audio' = [audio EXCEPT !.open = FALSE]
               /\ closed' = closed \cup (opened \cap ({H_audio, H_final} \cup ClipHandles))
               /\ UNCHANGED faults
          ELSE /\ faults' = faults + 1
               /\ UNCHANGED <<audio, closed>>
    /\ step4_result' = "None"
    /\ pc' = "finish"
    /\ UNCHANGED <<keys, ffmpeg_installed, topic, script_data, script_json, audio_file, tried,
                   visual_paths, files, calls, result, exc, metadata,
                   i4, clips, loaded, skipped, raised4, final_video, attached, encoded, verified,
                   opened, appVars, batchVars>>

\* ----------------------------------------------- generate_video: the end
RECURSIVE SumDurations(_)
SumDurations(scenes) ==
    IF scenes = << >> THEN 0 ELSE Head(scenes).duration + SumDurations(Tail(scenes))

\* Mutant: the description repeats the title instead of the narration.
GenerateMetadata_TitleAsDescription(sd, video_path) ==
    [written |-> TRUE, title |-> sd.title, description |-> sd.title,
     tags |-> <<"AI Generated", "Educational", "Tutorial", "Automated Video">>,
     category |-> "Education", video_path |-> video_path,
     duration_seconds |-> SumDurations(sd.scenes), scenes |-> Len(sd.scenes)]

_generate_metadata(sd, video_path) ==
    [written |-> TRUE, title |-> sd.title, description |-> sd.script,
     tags |-> <<"AI Generated", "Educational", "Tutorial", "Automated Video">>,
     category |-> "Education", video_path |-> video_path,
     duration_seconds |-> SumDurations(sd.scenes), scenes |-> Len(sd.scenes)]

\* Mutant: the metadata is written whatever step 4 returned.
Finish_MetadataAlways ==
    /\ pc = "finish"
    /\ metadata' = _generate_metadata(script_data, step4_result)
    /\ result' = IF step4_result = "path" THEN step4_result ELSE "None"
    /\ pc' = "done"
    /\ UNCHANGED <<keys, ffmpeg_installed, topic, script_data, script_json, audio_file, tried,
                   visual_paths, files, calls, exc, faults, asmVars, appVars, batchVars>>

\* if final_video_path: write the metadata and return the path; else None.
Finish ==
    /\ pc = "finish"
    /\ IF step4_result = "path"
       THEN /\ metadata' = _generate_metadata(script_data, step4_result)
            /\ result' = step4_result
       ELSE /\ UNCHANGED metadata
            /\ result' = "None"
    /\ pc' = "done"
    /\ UNCHANGED <<keys, ffmpeg_installed, topic, script_data, script_json, audio_file, tried,
                   visual_paths, files, calls, exc, faults, asmVars, appVars, batchVars>>

Next ==
    \/ Step1 \/ Step2Begin \/ ElevenLabs \/ EdgeTTS \/ SilentAudio
    \/ Step3Begin \/ Step3Scene \/ Step3Return
    \/ Step4LoadAudio \/ Step4LoadVisual \/ Step4NoClips \/ Step4Concatenate
    \/ Step4MatchAudio \/ Step4SetAudio \/ Step4Encode
    \/ Step4Return \/ Step4Except
    \/ Finish

Spec == Init /\ [][Next]_vars


\* ================================================================ app.py
\* Every access to generation_status happens inside `with status_lock:`, so
\* each locked block is one atomic action.  The pipeline calls a job thread
\* makes between two locked blocks are represented by their outcome: the
\* call returns, or it raises into the except clause of the thread.

RunningStatus ==
    [status |-> "running", message |-> "Initializing pipeline...", progress |-> 10,
     video_path |-> "None", error |-> "None"]

CompletedStatus(video_path) ==
    [status |-> "completed", message |-> "Video ready for download!", progress |-> 100,
     video_path |-> video_path, error |-> "None"]

\* Mutant: the error record of a failed run names a video.
FailedStatus_WithVideoPath ==
    [status |-> "error", message |-> "Video generation failed", progress |-> 0,
     video_path |-> "output/final_video.mp4", error |-> "Video pipeline returned None"]

FailedStatus ==
    [status |-> "error", message |-> "Video generation failed", progress |-> 0,
     video_path |-> "None", error |-> "Video pipeline returned None"]

ExceptionStatus(e) ==
    [status |-> "error", message |-> "Error: " \o e, progress |-> 0,
     video_path |-> "None", error |-> e]

\* generation_status['message'] = m; generation_status['progress'] = p
StepUpdate(gs, m, p) == [gs EXCEPT !.message = m, !.progress = p]

\* Mutant: the guard tests for a status that is never set.
Busy_WrongStatus(gs) == gs.status = "busy"

\* The guard of /generate: the request is refused while a job is running.
Busy(gs) == gs.status = "running"

\* /generate, the locked check.
GenerateCheck(r) ==
    /\ hpc[r] = "new"
    /\ hpc' = [hpc EXCEPT ![r] = IF Busy(generation_status) THEN "rejected" ELSE "checked"]
    /\ UNCHANGED <<generation_status, jpc, runVars, asmVars, batchVars>>

\* /generate after the check: an empty topic is answered with an error,
\* otherwise the background thread is started.
GenerateStart(r) ==
    /\ hpc[r] = "checked"
    /\ \E topic_given \in BOOLEAN :
          IF topic_given
          THEN /\ hpc' = [hpc EXCEPT ![r] = "started"]
               /\ jpc' = [jpc EXCEPT ![r] = "start"]
          ELSE /\ hpc' = [hpc EXCEPT ![r] = "no_topic"]
               /\ UNCHANGED jpc
    /\ UNCHANGED <<generation_status, runVars, asmVars, batchVars>>

\* generate_video_background, first locked block.
JobBegin(r) ==
    /\ jpc[r] = "start"
    /\ generation_status' = RunningStatus
    /\ jpc' = [jpc EXCEPT ![r] = "init"]
    /\ UNCHANGED <<hpc, runVars, asmVars, batchVars>>

\* The pipeline object is built; locked block before step 1.
JobStep1(r) ==
    /\ jpc[r] = "init"
    /\ generation_status' = StepUpdate(generation_status, "Generating AI script...", 25)
    /\ jpc' = [jpc EXCEPT ![r] = "step1"]
    /\ UNCHANGED <<hpc, runVars, asmVars, batchVars>>

\* The except clause of the thread.
JobRaise(r, e) ==
    /\ generation_status' = ExceptionStatus(e)
    /\ jpc' = [jpc EXCEPT ![r] = "done"]

\* Step 1 returned (it never raises); locked block before step 2.
JobStep2(r) ==
    /\ jpc[r] = "step1"
    /\ generation_status' = StepUpdate(generation_status, "Creating voiceover...", 40)
    /\ jpc' = [jpc EXCEPT ![r] = "step2"]
    /\ UNCHANGED <<hpc, runVars, asmVars, batchVars>>

\* Step 2 returned, locked block before step 3; or step 2 raised.
JobStep3(r) ==
    /\ jpc[r] = "step2"
    /\ \/ /\ generation_status' = StepUpdate(generation_status, "Fetching visuals...", 60)
          /\ jpc' = [jpc EXCEPT ![r] = "step3"]
       \/ JobRaise(r, "Failed to create silent audio")
    /\ UNCHANGED <<hpc, runVars, asmVars, batchVars>>

\* Step 3 returned, locked block before step 4; or step 3 raised.
JobStep4(r) ==
    /\ jpc[r] = "step3"
    /\ \/ /\ generation_status' = StepUpdate(generation_status, "Assembling final video...", 80)
          /\ jpc' = [jpc EXCEPT ![r] = "step4"]
       \/ JobRaise(r, "'description'")
    /\ UNCHANGED <<hpc, runVars, asmVars, batchVars>>

\* Mutant: the thread ends without writing a final record.
JobEnd_NoFinalRecord(r) ==
    /\ jpc[r] = "step4"
    /\ jpc' = [jpc EXCEPT ![r] = "done"]
    /\ UNCHANGED <<generation_status, hpc, runVars, asmVars, batchVars>>

\* Step 4 returned a path or None; last locked block.
JobEnd(r) ==
    /\ jpc[r] = "step4"
    /\ \E video_path \in {"None", "output/final_video.mp4"} :
          generation_status' = IF video_path # "None" THEN CompletedStatus(video_path)
                               ELSE FailedStatus
    /\ jpc' = [jpc EXCEPT ![r] = "done"]
    /\ UNCHANGED <<hpc, runVars, asmVars, batchVars>>

\* /reset
Reset ==
    /\ generation_status' = IdleStatus
    /\ UNCHANGED <<hpc, jpc, runVars, asmVars, batchVars>>

\* Job threads that have been started and have not finished.
ActiveJobs == { r \in Requests : jpc[r] \notin {"none", "done"} }

NextApp ==
    \/ \E r \in Requests : GenerateCheck(r)
    \/ \E r \in Requests : GenerateStart(r)
    \/ \E r \in Requests : JobBegin(r)
    \/ \E r \in Requests : JobStep1(r)
    \/ \E r \in Requests : JobStep2(r)
    \/ \E r \in Requests : JobStep3(r)
    \/ \E r \in Requests : JobStep4(r)
    \/ \E r \in Requests : JobEnd(r)
    \/ Reset

\* The front end alone: no generate_video run of the command line.
InitNoRun ==
    /\ keys = [groq |-> FALSE, eleven |-> FALSE, pexels |-> FALSE]
    /\ ffmpeg_installed = TRUE
    /\ topic = RunTopic
    /\ pc = "not_started"
    /\ script_data = NoScript
    /\ script_json = NoScript
    /\ audio_file = NoAudioFile
    /\ tried = << >>
    /\ visual_paths = << >>
    /\ files = << >>
    /\ calls = << >>
    /\ result = "pending"
    /\ exc = "none"
    /\ metadata = NoMetadata
    /\ faults = 0

AppInit == InitNoRun /\ InitAsm /\ InitApp /\ InitNoBatch

SpecApp == AppInit /\ [][NextApp]_vars


\* A step of the job thread of request r.
JobStep(r) ==
    \/ JobBegin(r) \/ JobStep1(r) \/ JobStep2(r) \/ JobStep3(r) \/ JobStep4(r) \/ JobEnd(r)

\* The front end when every started thread keeps being scheduled and every
\* call it makes returns: status_lock is released at the end of each
\* `with` block, so a thread that is ready to take its next step does so.
SpecAppFair == AppInit /\ [][NextApp]_vars /\ \A r \in Requests : WF_vars(JobStep(r))


\* ====================================================== batch_generate.py
\* What pipeline.generate_video(topic) hands back to its caller: a path or
\* None.  Its own except clause catches every Exception, so nothing is
\* raised into the loop of the batch.
GenerateVideoOutcomes == {"path", "None"}

\* The topic lists a batch is run on.
TopicLists == UNION { [1..n -> Topics] : n \in 1..MaxTopics }

\* The record appended for one topic: the try body, or the except clause
\* when generate_video raised.
BatchRecord(t, outcome) ==
    IF outcome = "raised"
    THEN [topic |-> t, status |-> "failed", video_path |-> "absent", error |-> "exception"]
    ELSE [topic |-> t, status |-> "success", video_path |-> outcome, error |-> "absent"]

\* One iteration of the loop of batch_generate_videos.
BatchIteration ==
    /\ ~summary.printed
    /\ Len(results) < Len(batch_topics)
    /\ \E outcome \in GenerateVideoOutcomes :
          results' = Append(results, BatchRecord(batch_topics[Len(results) + 1], outcome))
    /\ UNCHANGED <<batch_topics, summary, runVars, asmVars, appVars>>

\* Number of records with status 'success' among the first n.
RECURSIVE Successful(_, _)
Successful(rs, n) ==
    IF n = 0 THEN 0
    ELSE (IF rs[n].status = "success" THEN 1 ELSE 0) + Successful(rs, n - 1)

\* The summary after the loop: successful, and failed = total - successful.
BatchSummary ==
    /\ ~summary.printed
    /\ Len(results) = Len(batch_topics)
    /\ summary' = [printed |-> TRUE,
                   successful |-> Successful(results, Len(results)),
                   failed |-> Len(batch_topics) - Successful(results, Len(results))]
    /\ UNCHANGED <<batch_topics, results, runVars, asmVars, appVars>>

NextBatch == BatchIteration \/ BatchSummary

BatchInit ==
    /\ InitNoRun /\ InitAsm /\ InitApp
    /\ batch_topics \in TopicLists
    /\ results = << >>
    /\ summary = NoSummary

SpecBatch == BatchInit /\ [][NextBatch]_vars

\* ================================================================ claims
Range(f) == { f[x] : x \in DOMAIN f }

NoKeys == ~keys.groq /\ ~keys.eleven /\ ~keys.pexels

\* Duration of the concatenation of the appended clips (T).
ConcatenatedDuration == concatenate_videoclips(clips).duration

\* C1: whenever step 4 returns a video path, the encoded video stream lasts
\* exactly as long as the audio track (A), declared duration and content
\* alike, whether the concatenated scenes were shorter or longer than A.
C1_FinalDurationEqualsAudio ==
    step4_result = "path" =>
        /\ encoded.written
        /\ encoded.video.duration = audio.duration
        /\ FramesLen(encoded.video.frames) = audio.duration
        /\ encoded.audio_duration = audio.duration

\* A returned video whose concatenated scenes were shorter than the audio.
C1_Witness ==
    /\ step4_result = "path"
    /\ ConcatenatedDuration < audio.duration
    /\ Len(clips) >= 2

\* C2: at most one background generation job is active at any time.
C2_AtMostOneActiveJob == Cardinality(ActiveJobs) <= 1

\* C3: every clip appended for a scene lasts exactly the scene's declared
\* duration, declared duration and content alike.
C3_SceneClipDuration ==
    \A k \in 1..Len(clips) :
        /\ clips[k].duration = script_data.scenes[loaded[k]].duration
        /\ FramesLen(clips[k].frames) = script_data.scenes[loaded[k]].duration

\* Two looped clips in one list: a downloaded file and a placeholder, both
\* shorter than their scenes.
C3_Witness ==
    \E k \in 1..Len(clips), l \in 1..Len(clips) :
        /\ files[loaded[k]].duration < script_data.scenes[loaded[k]].duration
        /\ files[loaded[l]].duration < script_data.scenes[loaded[l]].duration
        /\ files[loaded[k]].duration # files[loaded[l]].duration

\* C4: a /generate request that finds the status 'running' is answered with
\* an error, starts no thread and leaves generation_status unchanged.
C4_RejectedWhileRunning ==
    /\ [][\A r \in Requests :
            (hpc[r] = "new" /\ generation_status.status = "running" /\ hpc'[r] # "new")
            => /\ hpc'[r] = "rejected"
               /\ jpc' = jpc
               /\ generation_status' = generation_status]_vars
    /\ [](\A r \in Requests : hpc[r] = "rejected" => jpc[r] = "none")

\* A request was refused while a job is running.
C4_Witness ==
    \E r \in Requests :
        /\ hpc[r] = "rejected"
        /\ generation_status.status = "running"
        /\ ActiveJobs # {}

C6_ThreeScenesOfTen ==
    (~keys.groq /\ pc # "step1") =>
        /\ Len(script_data.scenes) = 3
        /\ SumDurations(script_data.scenes) = 30

\* C6 amended: without a text-generation key step 1 returns the fallback
\* script of the topic, which has exactly 5 scenes of 10 seconds each
\* (50 seconds in total).
C6_FiveScenesOfTen ==
    (~keys.groq /\ pc # "step1") =>
        /\ script_data = _generate_fallback_script(topic)
        /\ WellFormedScript(script_data)
        /\ Len(script_data.scenes) = 5
        /\ \A i \in 1..Len(script_data.scenes) : script_data.scenes[i].duration = 10
        /\ SumDurations(script_data.scenes) = 50
        /\ \A t \in Topics \ {topic} : script_data # _generate_fallback_script(t)

C6_Witness == ~keys.groq /\ pc = "step2" /\ Len(script_data.scenes) = 5

\* C7: step 1 always returns a well-formed Script.
C7_ScriptWellFormed == pc # "step1" => WellFormedScript(script_data)

\* Step 3 has returned.
Step3Returned == "step4" \in Range(calls) \/ pc = "step4"

\* C8: for a well-formed script step 3 returns one path per scene, entry i
\* for scene i, and no exception leaves it.
C8_OneVisualPerScene ==
    WellFormedScript(script_data) =>
        /\ \A k \in 1..Len(visual_paths) : visual_paths[k] = k
        /\ Len(files) = Len(visual_paths)
        /\ Len(visual_paths) <= Len(script_data.scenes)
        /\ Step3Returned => Len(visual_paths) = Len(script_data.scenes)
        /\ exc \in {"none", "Failed to create silent audio"}

\* Step 3 returned although a stock-footage lookup and a placeholder render
\* failed.
C8_Witness ==
    /\ WellFormedScript(script_data)
    /\ keys.pexels
    /\ pc = "step4"
    /\ \E i \in 1..Len(files) : ~files[i].written
    /\ \E i \in 1..Len(files) : files[i].kind = "download"

\* The scenes in increasing order.
Increasing(seq) == \A k \in 1..Len(seq), l \in 1..Len(seq) : k < l => seq[k] < seq[l]

\* C9: a scene whose visual fails to load or normalize is skipped; the
\* clips of the other scenes are kept in scene order, and if at least one
\* remains the assembly goes on and returns a video path unless the encode
\* or the final clean-up itself raises.
C9_FailedSceneSkipped ==
    /\ Increasing(loaded) /\ Increasing(skipped)
    /\ Range(loaded) \cap Range(skipped) = {}
    /\ Len(clips) = Len(loaded)
    /\ pc \in {"s4_visuals", "s4_match", "s4_attach", "s4_encode", "s4_verify"} =>
          Range(loaded) \cup Range(skipped) = {visual_paths[k] : k \in 1..(i4 - 1)}
    /\ (skipped # << >> /\ pc \notin {"s4_visuals", "s4_except"}) =>
          /\ Range(loaded) \cup Range(skipped) = Range(visual_paths)
          /\ (loaded # << >> /\ pc = "s4_match") => final_video = concatenate_videoclips(clips)
          /\ (loaded # << >> /\ step4_result = "None") =>
                raised4 \in {"write_videofile", "close"}

\* A video was returned although a scene was skipped.
C9_Witness ==
    /\ step4_result = "path"
    /\ skipped # << >>
    /\ loaded # << >>

StepOrder == <<"step1", "step2", "step3", "step4">>

Step4Invoked == Len(calls) = 4

\* C11: step4_combine_into_video never raises to its caller: once it has
\* been invoked no exception reaches generate_video, and a call in which
\* an exception occurred (audio load, encode, clean-up) returns None.
C11_Step4NeverRaises ==
    /\ Step4Invoked => exc = "none"
    /\ (pc \in {"finish", "done"} /\ Step4Invoked) => step4_result \in {"path", "None"}
    /\ (raised4 # "none" /\ pc \in {"finish", "done"}) => step4_result = "None"
    /\ pc = "s4_except" => raised4 # "none"

\* The clean-up after a successful encode raised and the call returned None.
C11_Witness ==
    /\ pc = "done"
    /\ raised4 = "close"
    /\ encoded.written
    /\ step4_result = "None"

\* ---------------------------------------------------------------- C12
\* C12: the steps are invoked in the order script, voiceover, visuals,
\* assembly, each at most once and each after the previous one returned
\* (its result exists); after an exception no further step is invoked.
C12_StepsInOrder ==
    /\ Len(calls) <= 4
    /\ calls = SubSeq(StepOrder, 1, Len(calls))
    /\ Len(calls) >= 2 => script_data # NoScript /\ script_json = script_data
    /\ Len(calls) >= 3 => audio_file.exists
    /\ Len(calls) = 4 => Len(visual_paths) = Len(script_data.scenes)
    /\ exc # "none" => pc = "done"
    /\ pc = "done" => result \in {"path", "None"}

\* A run that went through all four steps.
C12_Witness ==
    /\ pc = "done"
    /\ calls = StepOrder
    /\ result = "path"

\* ---------------------------------------------------------------- C13
\* C13: generate_video never raises; when a step raised or step 4 returned
\* None, it returns None and no metadata document is written.
C13_FailureReturnsNone ==
    /\ pc = "done" => result \in {"path", "None"}
    /\ (pc = "done" /\ (exc # "none" \/ step4_result = "None")) =>
          /\ result = "None"
          /\ metadata = NoMetadata
    /\ result = "None" => metadata = NoMetadata

\* The encode raised: step 4 reported failure and the run returned None.
C13_Witness ==
    /\ pc = "done"
    /\ raised4 = "write_videofile"
    /\ step4_result = "None"
    /\ result = "None"

\* ---------------------------------------------------------------- C14
\* Sum of the durations of the scenes, by index.
RECURSIVE TotalDuration(_, _)
TotalDuration(scenes, n) ==
    IF n = 0 THEN 0 ELSE scenes[n].duration + TotalDuration(scenes, n - 1)

\* C14: when generate_video returns a path, script.json holds the script of
\* the run and youtube_metadata.json holds its title, its narration as
\* description, the fixed tags, the summed scene durations and the scene count.
C14_MetadataOnSuccess ==
    result = "path" =>
        /\ script_json = script_data
        /\ metadata.written
        /\ metadata.title = script_data.title
        /\ metadata.description = script_data.script
        /\ metadata.tags = <<"AI Generated", "Educational", "Tutorial", "Automated Video">>
        /\ metadata.duration_seconds =
              TotalDuration(script_data.scenes, Len(script_data.scenes))
        /\ metadata.scenes = Len(script_data.scenes)

\* A successful run on a script of the service with two scenes.
C14_Witness ==
    /\ result = "path"
    /\ keys.groq
    /\ Len(script_data.scenes) = 2
    /\ metadata.duration_seconds = 2
    /\ metadata.description # metadata.title

\* ---------------------------------------------------------------- C15
\* C15: the status becomes 'running' only by the first block of a job
\* thread that an accepted /generate request started, it becomes
\* 'completed' or 'error' only from 'running', and it becomes 'idle' only
\* as the whole idle default record.
C15_StatusLifecycle ==
    [][ LET s == generation_status.status
            t == generation_status'.status
        IN  /\ (t = "running" /\ s # "running") =>
                  \E r \in Requests : hpc[r] = "started" /\ jpc[r] = "start" /\ jpc'[r] = "init"
            /\ (t \in {"completed", "error"} /\ t # s) => s = "running"
            /\ (t = "idle" /\ s # "idle") => generation_status' = IdleStatus ]_vars

\* ---------------------------------------------------------------- C16
\* C16: a record with status 'error' has an error text and no video path,
\* and a video path is present only in a record with status 'completed'.
C16_ErrorRecordShape ==
    /\ generation_status.status = "error" =>
          /\ generation_status.error # "None"
          /\ generation_status.message # "None"
          /\ generation_status.video_path = "None"
    /\ generation_status.video_path # "None" => generation_status.status = "completed"

\* A job thread has ended with the error record of a failed run while
\* another thread is still at work.
C16_Witness ==
    /\ generation_status = FailedStatus
    /\ \E r \in Requests : jpc[r] = "done"
    /\ \E r \in Requests : jpc[r] = "step2"

\* ---------------------------------------------------------------- C17
StepPairs ==
    { <<"Initializing pipeline...", 10>>, <<"Generating AI script...", 25>>,
      <<"Creating voiceover...", 40>>, <<"Fetching visuals...", 60>>,
      <<"Assembling final video...", 80>> }

\* C17: the record a /status read returns is consistent: idle with
\* progress 0 and the default message, running with the message and
\* progress of one step update, completed with 100, error with 0.
C17_StatusRecordConsistent ==
    /\ generation_status.status = "idle" =>
          /\ generation_status.progress = 0
          /\ generation_status.message = IdleStatus.message
    /\ generation_status.status = "running" =>
          <<generation_status.message, generation_status.progress>> \in StepPairs
    /\ generation_status.status = "completed" => generation_status.progress = 100
    /\ generation_status.status = "error" => generation_status.progress = 0

\* ---------------------------------------------------------------- C18
\* C18: when step 4 has returned, every handle it opened has been closed.
C18_AllAssetsClosed ==
    (Step4Invoked /\ pc \in {"finish", "done"}) => opened \subseteq closed

\* ---------------------------------------------------------------- C19
\* C19: step 4 returns a path only if the output file was written and the
\* probe found an audio stream in it.
C19_PathOnlyIfVerified ==
    step4_result = "path" => (encoded.written /\ verified = "audio_found")

\* ---------------------------------------------------------------- C20
\* C20: the audio is attached after the durations were reconciled and
\* before the encode: it is not attached before set_audio runs, at that
\* moment the video lasts as long as the audio and nothing is encoded, and
\* what is encoded carries the audio.
C20_AttachAfterReconcile ==
    /\ pc \in {"step4", "s4_visuals", "s4_match", "s4_attach"} => (~attached /\ ~encoded.written)
    /\ pc = "s4_attach" => final_video.duration = audio.duration
    /\ attached => final_video.duration = audio.duration
    /\ encoded.written => (attached /\ encoded.has_audio
                            /\ encoded.video.duration = encoded.audio_duration)

\* The audio was attached to a video that had to be looped to its length.
C20_Witness ==
    /\ pc = "s4_encode"
    /\ attached
    /\ ConcatenatedDuration < audio.duration
    /\ final_video.duration = audio.duration

\* ---------------------------------------------------------------- C21
\* Step 2 has returned a track to generate_video.
Step2Returned == pc = "step3" \/ Len(calls) >= 3

\* C21: the track step 2 returns as the result of the paid or of the free
\* speech service is never smaller than the minimum size.
C21_NoSmallAudioReturned ==
    (Step2Returned /\ audio_file.provider \in {"elevenlabs", "edge_tts"}) =>
        audio_file.size >= MinAudioSize

\* ---------------------------------------------------------------- C22
\* The providers that apply to the run, in their order.
ProviderOrder ==
    (IF keys.eleven THEN <<"elevenlabs">> ELSE << >>) \o <<"edge_tts", "silent">>

\* C22: the providers are invoked in the order ElevenLabs (with a key
\* only), Edge TTS, silent track; a provider is invoked only when the one
\* before it has not supplied the track, and the track step 2 returns is
\* the one of the last provider invoked.
C22_ProviderOrder ==
    /\ Len(tried) <= Len(ProviderOrder)
    /\ tried = SubSeq(ProviderOrder, 1, Len(tried))
    /\ pc = "elevenlabs" => (tried = << >> /\ keys.eleven)
    /\ pc = "edge_tts" => (audio_file = NoAudioFile /\ Len(tried) = Len(ProviderOrder) - 2)
    /\ pc = "silent" => (tried[Len(tried)] = "edge_tts"
                          /\ (audio_file.exists => audio_file.size < MinAudioSize))
    /\ Step2Returned =>
          /\ tried # << >>
          /\ audio_file.exists
          /\ audio_file.provider = tried[Len(tried)]

\* All three providers were invoked and the silent track was returned.
C22_Witness ==
    /\ pc = "step3"
    /\ tried = <<"elevenlabs", "edge_tts", "silent">>
    /\ audio_file.provider = "silent"
    /\ audio_file.duration = SilentDuration

\* ---------------------------------------------------------------- C23
\* d / c rounded up.
Ceil(d, c) == (d + c - 1) \div c

\* Intrinsic duration of the file behind the k-th appended clip, and the
\* declared duration of its scene.
FileDuration(k) == files[loaded[k]].duration
SceneDuration(k) == script_data.scenes[loaded[k]].duration

\* final_video is the concatenation of the clips, not yet reconciled with
\* the audio.
Concatenated == pc = "s4_match"

\* C23 as claimed: wherever a clip (or the concatenated stream) is looped,
\* the number of copies is ceil(d / c).
C23_CopiesAreCeil ==
    /\ \A k \in 1..Len(loaded) :
          FileDuration(k) < SceneDuration(k) =>
              LoopsNeeded(SceneDuration(k), FileDuration(k))
                  = Ceil(SceneDuration(k), FileDuration(k))
    /\ (Concatenated /\ final_video.duration < audio.duration) =>
          LoopsNeeded(audio.duration, final_video.duration)
              = Ceil(audio.duration, final_video.duration)

\* n copies of c seconds are the least number that lasts longer than d.
FloorPlusOne(n, d, c) ==
    /\ n * c > d
    /\ (n - 1) * c <= d
    /\ n >= Ceil(d, c)
    /\ (n = Ceil(d, c)) <=> (d % c # 0)

\* C23 amended: the number of copies is floor(d / c) + 1, which is
\* ceil(d / c) when c does not divide d and one more when it does.
C23_CopiesAreFloorPlusOne ==
    /\ \A k \in 1..Len(loaded) :
          FileDuration(k) < SceneDuration(k) =>
              FloorPlusOne(LoopsNeeded(SceneDuration(k), FileDuration(k)),
                           SceneDuration(k), FileDuration(k))
    /\ (Concatenated /\ final_video.duration < audio.duration) =>
          FloorPlusOne(LoopsNeeded(audio.duration, final_video.duration),
                       audio.duration, final_video.duration)

\* Two looped clips in one run: a file whose duration divides the scene's
\* and one whose duration does not.
C23_Witness ==
    /\ \E k \in 1..Len(loaded) :
          FileDuration(k) < SceneDuration(k) /\ SceneDuration(k) % FileDuration(k) = 0
    /\ \E k \in 1..Len(loaded) :
          FileDuration(k) < SceneDuration(k) /\ SceneDuration(k) % FileDuration(k) # 0

\* ---------------------------------------------------------------- C24
\* Sum of the declared durations of the scenes of the first n appended clips.
RECURSIVE LoadedDuration(_)
LoadedDuration(n) == IF n = 0 THEN 0 ELSE SceneDuration(n) + LoadedDuration(n - 1)

\* The scenes a sequence of segments shows, one after the other, and for
\* how many seconds each: consecutive segments of one scene are one run.
RECURSIVE SceneRuns(_)
SceneRuns(segs) ==
    IF segs = << >> THEN << >>
    ELSE LET rest == SceneRuns(Tail(segs))
         IN  IF rest # << >> /\ rest[1][1] = Head(segs).scene
             THEN <<<<Head(segs).scene, Head(segs).len + rest[1][2]>>>> \o Tail(rest)
             ELSE <<<<Head(segs).scene, Head(segs).len>>>> \o rest

\* The stream shows, without gap, the scene of each appended clip for that
\* scene's declared duration, in the order of the list.
InSceneOrder(stream) ==
    /\ FramesLen(stream.frames) = stream.duration
    /\ SceneRuns(stream.frames) = [k \in 1..Len(loaded) |-> <<loaded[k], SceneDuration(k)>>]

\* C24 as claimed: the concatenated stream lasts the sum of the declared
\* durations of all scenes of the script.
C24_TotalIsSumOfAllScenes ==
    pc = "s4_match" =>
        /\ InSceneOrder(final_video)
        /\ final_video.duration = TotalDuration(script_data.scenes, Len(script_data.scenes))

\* C24 amended: the clips are concatenated in scene order without gaps and
\* the stream lasts the sum of the declared durations of the scenes whose
\* clip was loaded: of all scenes when none was skipped.
C24_TotalIsSumOfLoadedScenes ==
    pc = "s4_match" =>
        /\ Increasing(loaded)
        /\ InSceneOrder(final_video)
        /\ final_video.duration = LoadedDuration(Len(loaded))
        /\ skipped = << >> =>
              final_video.duration = TotalDuration(script_data.scenes, Len(script_data.scenes))
        /\ skipped # << >> =>
              final_video.duration < TotalDuration(script_data.scenes, Len(script_data.scenes))

\* A concatenation of several clips from which one scene is missing.
C24_Witness ==
    /\ pc = "s4_match"
    /\ Len(loaded) >= 2
    /\ skipped # << >>
    /\ loaded[Len(loaded)] > skipped[1]

\* ---------------------------------------------------------------- C25
\* C25: when the concatenated stream is shorter than the audio, the final
\* stream shows at every second t below A what the concatenated stream
\* shows at t mod T, lasts A, and is a function of the clips and of A.
C25_LoopedThenTrimmed ==
    pc = "s4_attach" =>
        LET cat == concatenate_videoclips(clips)
        IN  cat.duration < audio.duration =>
              /\ final_video.duration = audio.duration
              /\ FramesLen(final_video.frames) = audio.duration
              /\ \A t \in 0..(audio.duration - 1) :
                    FrameAt(final_video.frames, t) = FrameAt(cat.frames, t % cat.duration)
              /\ final_video = MatchAudio(cat, audio.duration)

\* A stream of two scenes repeated under a longer audio track.
C25_Witness ==
    /\ pc = "s4_attach"
    /\ Len(clips) = 2
    /\ ConcatenatedDuration < audio.duration
    /\ audio.duration = SilentDuration

\* ---------------------------------------------------------------- C26
TerminalStatus == generation_status.status \in {"completed", "error"}

\* C26: the thread of every accepted request comes to its end and leaves a
\* 'completed' or 'error' record at that moment, and the record does not
\* stay 'running' forever.
C26_AcceptedJobEnds ==
    /\ \A r \in Requests : (jpc[r] = "start") ~> (jpc[r] = "done" /\ TerminalStatus)
    /\ (generation_status.status = "running") ~> (generation_status.status # "running")

\* Two threads have ended, the last one after a step of its pipeline raised.
C26_Witness ==
    /\ \E r, q \in Requests : r # q /\ jpc[r] = "done" /\ jpc[q] = "done"
    /\ ActiveJobs = {}
    /\ generation_status.status = "error"
    /\ generation_status.error # FailedStatus.error

\* ---------------------------------------------------------------- C27
\* C27: when a job started through /generate has reached 'completed',
\* script.json and youtube_metadata.json have been written.
C27_JobPersistsArtifacts ==
    generation_status.status = "completed" =>
        (script_json # NoScript /\ metadata.written)

\* ---------------------------------------------------------------- C28
\* Number of records among the first n whose topic got no video.
RECURSIVE WithoutVideo(_, _)
WithoutVideo(rs, n) ==
    IF n = 0 THEN 0
    ELSE (IF rs[n].video_path \in {"None", "absent"} THEN 1 ELSE 0) + WithoutVideo(rs, n - 1)

\* C28: a record with status 'success' names a video, and the topics for
\* which generate_video reported failure are counted as failed.
C28_SuccessMeansVideo ==
    /\ \A k \in 1..Len(results) :
          results[k].status = "success" => results[k].video_path # "None"
    /\ summary.printed => summary.failed = WithoutVideo(results, Len(results))

\* ---------------------------------------------------------------- C29
\* C29: every path step 3 returns names a file that was written.
C29_ReturnedVisualsExist ==
    Step3Returned =>
        \A k \in 1..Len(visual_paths) : files[visual_paths[k]].written

====
